---------------------------- MODULE Spec2Model ----------------------------
(***************************************************************************)
(* A model of the style cache of stylist-rs.                               *)
(*                                                                         *)
(* Part 1 models packages/stylist-core/src/style.rs: the registry guarded  *)
(* by one mutex, the reference-counted StyleContent, its OnceCell of       *)
(* rendered text and the <style> elements of the document head.  Spec is   *)
(* the build for target_arch = "wasm32", in which StyleContent::mount,     *)
(* StyleContent::unmount and the Drop hook exist; SpecNative is the build  *)
(* for any other target, in which the text is rendered lazily.             *)
(*                                                                         *)
(* Part 2 models the older src/style/mod.rs, whose Style::create parses    *)
(* source text and stores every style under its class name, in both of     *)
(* its cfg variants.                                                       *)
(***************************************************************************)
EXTENDS Naturals, Sequences, FiniteSets

\* ------------------------------------------------------------------ bounds
NumThreads == 2
NumKeys == 2
MaxContents == 2
MaxHandles == 2
MaxLegacyCreates == 2

Threads == 1..NumThreads
\* A key stands for one structurally distinct Scopes value (StyleKey compares
\* the tree, not the Arc).
Keys == 1..NumKeys
\* Class prefixes: the default of try_from_scopes and a custom one.
Prefixes == {"stylist", "my-component"}
\* The strings get_rand_str can return.
Suffixes == {"uSu9NZZu", "abc123"}

NoStyle == 0
NoThread == 0
NoText == <<>>

VARIABLES
    registry,    \* StyleRegistry: key -> content id held by the registry, or NoStyle
    poisoned,    \* the poison flag of the registry's Mutex
    lockHolder,  \* the thread holding the registry's MutexGuard, or NoThread
    contents,    \* every StyleContent allocated so far, by id
    handles,     \* per content: the Style handles held by callers
    stat,        \* per content: what the sink and the renderer were asked to do
    dom,         \* the <style> elements of the document head, in order
    pc,          \* per thread: where it is in its current call
    arg,         \* per thread: the locals of its current call
    last,        \* the step taken last and what it returned
    released,    \* the keys of which a content was released since their last lookup
    target,      \* src/style/mod.rs: the cfg the crate was built for
    styles,      \* src/style/mod.rs: StyleRegistry.styles, class name -> Style
    head,        \* src/style/mod.rs: the elements appended to the document head
    legacyCalls  \* src/style/mod.rs: calls of Style::create so far

coreVars == <<registry, poisoned, lockHolder, contents, handles, stat, dom, pc, arg,
              released>>
legacyVars == <<target, styles, head, legacyCalls>>
vars == <<registry, poisoned, lockHolder, contents, handles, stat, dom, pc, arg,
          last, released, target, styles, head, legacyCalls>>

\* ------------------------------------------------------------- pure helpers
Ids == 1..Len(contents)

\* format!("{}-{}", class_prefix, get_rand_str())
FormatClassName(prefix, suffix) == <<prefix, "-", suffix>>

ClassName(c) == contents[c].class_name

\* ast.to_css(class_name): the text is a function of the tree and of the class
\* name that scopes every selector of it.
ToCss(ast, class_name) == <<".", class_name, "{", ast, "}">>

\* The threads whose local new_style refers to content c (between its
\* construction and the return of create_from_scopes_impl).
Building(c) == {t \in Threads : pc[t] \in {"create_mount", "create_register"}
                                /\ arg[t].c = c}

\* The threads inside a &self method of a handle to content c.
Borrowing(c) == {t \in Threads : pc[t] \in {"unreg_lock", "gss_init", "gss_wait"}
                                 /\ arg[t].c = c}

InRegistry(c) == registry[contents[c].key] = c

\* Arc::strong_count of the content.
Strong(c) == handles[c] + (IF InRegistry(c) THEN 1 ELSE 0) + Cardinality(Building(c))

RECURSIVE RemoveFirst(_, _)
\* query_selector finds the first element with data-style = cls; remove_child
\* takes it out of its parent.
RemoveFirst(elems, cls) ==
    IF elems = <<>> THEN <<>>
    ELSE IF Head(elems).cls = cls THEN Tail(elems)
    ELSE <<Head(elems)>> \o RemoveFirst(Tail(elems), cls)

Idle == [key |-> 0, prefix |-> "", c |-> NoStyle]

Outcome(op, out, c, val) == [op |-> op, out |-> out, c |-> c, val |-> val]

\* =========================================================================
\* Part 1: packages/stylist-core/src/style.rs
\* =========================================================================

\* StyleRegistry::get(&key): a clone of the Style stored under an equal key.
RegGet(key) == registry[key]

\* StyleRegistry::register(style): stores the Style under its own key.
RegRegister(c) == [registry EXCEPT ![contents[c].key] = c]

\* StyleRegistry::unregister(&key): removes the entry of an equal key, if any.
RegUnregister(key) == [registry EXCEPT ![key] = NoStyle]

\* A lock that excludes nobody.
LockFree_NoExclusion == TRUE

\* reg.lock() returns once no other thread holds the guard.
LockFree == lockHolder = NoThread

\* impl Drop for StyleContent, run when the last reference to c goes: it
\* exists under cfg(target_arch = "wasm32") only, calls unmount and discards
\* the result.
Unmounted(s, c) ==
    IF target = "wasm32" THEN [s EXCEPT ![c].unmounts = @ + 1] ELSE s

\* unmount removes the first element carrying the content's class name.
HeadAfterDrop(c) ==
    IF target = "wasm32" THEN RemoveFirst(dom, ClassName(c)) ELSE dom

\* The creations that have not yet looked the registry up.
Arriving == {t \in Threads : pc[t] = "create_lock"}

\* Style::create_from_scopes(class_prefix, css): the call is made and waits
\* for the registry's guard.
CreateCall(t, k, p) ==
    /\ pc[t] = "idle"
    /\ IF registry[k] = NoStyle
         THEN Len(contents) + Cardinality(Arriving) < MaxContents
         ELSE handles[registry[k]] + Cardinality({u \in Arriving : arg[u].key = k}) < MaxHandles
    /\ pc' = [pc EXCEPT ![t] = "create_lock"]
    /\ arg' = [arg EXCEPT ![t] = [key |-> k, prefix |-> p, c |-> NoStyle]]
    /\ last' = Outcome("create", "called", NoStyle, NoText)
    /\ UNCHANGED <<registry, poisoned, lockHolder, contents, handles, stat, dom>>
    /\ UNCHANGED released
    /\ UNCHANGED legacyVars

\* create_from_scopes_impl, lines 97-102 on a poisoned mutex: lock() yields
\* Err and unwrap panics, which drops the guard inside the error.
CreatePoisoned(t) ==
    /\ pc[t] = "create_lock"
    /\ LockFree
    /\ poisoned
    /\ last' = Outcome("create", "poisoned", NoStyle, <<arg[t].key, arg[t].prefix>>)
    /\ pc' = [pc EXCEPT ![t] = "idle"]
    /\ arg' = [arg EXCEPT ![t] = Idle]
    /\ UNCHANGED <<registry, poisoned, lockHolder, contents, handles, stat, dom>>
    /\ released' = released \ {arg[t].key}
    /\ UNCHANGED legacyVars

\* A hit that hands the cached style out and mounts it once more.
CreateHit_Remounts(t) ==
    /\ pc[t] = "create_lock"
    /\ LockFree
    /\ ~poisoned
    /\ RegGet(arg[t].key) # NoStyle
    /\ handles' = [handles EXCEPT ![RegGet(arg[t].key)] = @ + 1]
    /\ stat' = [stat EXCEPT ![RegGet(arg[t].key)].mountCalls = @ + 1]
    /\ dom' = Append(dom, [cls |-> ClassName(RegGet(arg[t].key)),
                           text |-> contents[RegGet(arg[t].key)].style_str])
    /\ last' = Outcome("create", "hit", RegGet(arg[t].key), <<arg[t].key, arg[t].prefix>>)
    /\ pc' = [pc EXCEPT ![t] = "idle"]
    /\ arg' = [arg EXCEPT ![t] = Idle]
    /\ UNCHANGED <<registry, poisoned, lockHolder, contents>>
    /\ released' = released \ {arg[t].key}
    /\ UNCHANGED legacyVars

\* create_from_scopes_impl, lines 97-106 when the registry has the key:
\* if let Some(m) = reg.get(&key) { return m; }
CreateHit(t) ==
    /\ pc[t] = "create_lock"
    /\ LockFree
    /\ ~poisoned
    /\ RegGet(arg[t].key) # NoStyle
    /\ handles' = [handles EXCEPT ![RegGet(arg[t].key)] = @ + 1]
    /\ last' = Outcome("create", "hit", RegGet(arg[t].key), <<arg[t].key, arg[t].prefix>>)
    /\ pc' = [pc EXCEPT ![t] = "idle"]
    /\ arg' = [arg EXCEPT ![t] = Idle]
    /\ UNCHANGED <<registry, poisoned, lockHolder, contents, stat, dom>>
    /\ released' = released \ {arg[t].key}
    /\ UNCHANGED legacyVars

\* A creation that builds without looking the registry up.
CreateMiss_NoLookup(t) ==
    /\ pc[t] = "create_lock"
    /\ LockFree
    /\ ~poisoned
    /\ Len(contents) < MaxContents
    /\ lockHolder' = t
    /\ \E suffix \in Suffixes :
         contents' = Append(contents,
                            [key |-> arg[t].key,
                             class_name |-> FormatClassName(arg[t].prefix, suffix),
                             ast |-> arg[t].key,
                             style_str |-> NoText])
    /\ handles' = Append(handles, 0)
    /\ stat' = Append(stat, [mountCalls |-> 0, mounted |-> FALSE, unmounts |-> 0,
                             renders |-> 0, evicted |-> FALSE])
    /\ arg' = [arg EXCEPT ![t].c = Len(contents) + 1]
    /\ pc' = [pc EXCEPT ![t] = IF target = "wasm32" THEN "create_mount"
                                                     ELSE "create_register"]
    /\ last' = Outcome("create", "building", Len(contents) + 1, <<arg[t].key, arg[t].prefix>>)
    /\ UNCHANGED <<registry, poisoned, dom>>
    /\ released' = released \ {arg[t].key}
    /\ UNCHANGED legacyVars

\* create_from_scopes_impl, lines 97-115 when it has not: the guard is kept and
\* let new_style = Self { inner: Arc::new(StyleContent { .. }) };
CreateMiss(t) ==
    /\ pc[t] = "create_lock"
    /\ LockFree
    /\ ~poisoned
    /\ RegGet(arg[t].key) = NoStyle
    /\ Len(contents) < MaxContents
    /\ lockHolder' = t
    /\ \E suffix \in Suffixes :
         contents' = Append(contents,
                            [key |-> arg[t].key,
                             class_name |-> FormatClassName(arg[t].prefix, suffix),
                             ast |-> arg[t].key,
                             style_str |-> NoText])
    /\ handles' = Append(handles, 0)
    /\ stat' = Append(stat, [mountCalls |-> 0, mounted |-> FALSE, unmounts |-> 0,
                             renders |-> 0, evicted |-> FALSE])
    /\ arg' = [arg EXCEPT ![t].c = Len(contents) + 1]
    /\ pc' = [pc EXCEPT ![t] = IF target = "wasm32" THEN "create_mount"
                                                     ELSE "create_register"]
    /\ last' = Outcome("create", "building", Len(contents) + 1, <<arg[t].key, arg[t].prefix>>)
    /\ UNCHANGED <<registry, poisoned, dom>>
    /\ released' = released \ {arg[t].key}
    /\ UNCHANGED legacyVars

\* A mount that writes no text: the cell is still empty when create returns.
CreateMount_NoRender(t) ==
    /\ pc[t] = "create_mount"
    /\ LET c == arg[t].c
       IN /\ stat' = [stat EXCEPT ![c].mountCalls = @ + 1,
                                  ![c].mounted = TRUE]
          /\ dom' = Append(dom, [cls |-> ClassName(c), text |-> NoText])
    /\ pc' = [pc EXCEPT ![t] = "create_register"]
    /\ last' = Outcome("create", "mounted", arg[t].c, <<arg[t].key, arg[t].prefix>>)
    /\ UNCHANGED <<registry, poisoned, lockHolder, contents, handles, arg>>
    /\ UNCHANGED released
    /\ UNCHANGED legacyVars

\* new_style.inner.mount() returning Ok: the element carries the class name
\* and the text of get_style_str, which fills the cell.
CreateMount(t) ==
    /\ pc[t] = "create_mount"
    /\ LET c == arg[t].c
           text == ToCss(contents[c].ast, ClassName(c))
       IN /\ contents' = [contents EXCEPT ![c].style_str = text]
          /\ stat' = [stat EXCEPT ![c].mountCalls = @ + 1,
                                  ![c].mounted = TRUE,
                                  ![c].renders = @ + 1]
          /\ dom' = Append(dom, [cls |-> ClassName(c), text |-> text])
    /\ pc' = [pc EXCEPT ![t] = "create_register"]
    /\ last' = Outcome("create", "mounted", arg[t].c, <<arg[t].key, arg[t].prefix>>)
    /\ UNCHANGED <<registry, poisoned, lockHolder, handles, arg>>
    /\ UNCHANGED released
    /\ UNCHANGED legacyVars

\* A mount whose error is discarded: the creation goes on to register.
MountFail_Swallowed(t) ==
    /\ pc[t] = "create_mount"
    /\ stat' = [stat EXCEPT ![arg[t].c].mountCalls = @ + 1]
    /\ pc' = [pc EXCEPT ![t] = "create_register"]
    /\ last' = Outcome("create", "mounted", arg[t].c, <<arg[t].key, arg[t].prefix>>)
    /\ UNCHANGED <<registry, poisoned, lockHolder, contents, handles, dom, arg, released>>
    /\ UNCHANGED legacyVars

\* new_style.inner.mount() returning Err, before set_text_content (document,
\* doc_head, create_element, set_attribute) or after it (append_child):
\* expect panics. Unwinding drops new_style, the only reference, so Drop runs
\* unmount, which removes the first element of that class name or returns an
\* Err that is discarded; then it drops the guard, which poisons the mutex.
MountFail(t) ==
    /\ pc[t] = "create_mount"
    /\ LET c == arg[t].c
           text == ToCss(contents[c].ast, ClassName(c))
       IN /\ \E rendered \in BOOLEAN :
               /\ contents' = [contents EXCEPT
                                 ![c].style_str = IF rendered THEN text ELSE NoText]
               /\ stat' = [stat EXCEPT
                             ![c].mountCalls = @ + 1,
                             ![c].renders = IF rendered THEN @ + 1 ELSE @,
                             ![c].unmounts = @ + 1]
          /\ dom' \in {RemoveFirst(dom, ClassName(c)), dom}
          /\ last' = Outcome("create", "mount_failed", c, <<arg[t].key, arg[t].prefix>>)
    /\ poisoned' = TRUE
    /\ lockHolder' = NoThread
    /\ pc' = [pc EXCEPT ![t] = "idle"]
    /\ arg' = [arg EXCEPT ![t] = Idle]
    /\ UNCHANGED <<registry, handles>>
    /\ UNCHANGED released
    /\ UNCHANGED legacyVars

\* A creation that returns the new style and keeps the registry's guard.
CreateRegister_KeepsGuard(t) ==
    /\ pc[t] = "create_register"
    /\ LET c == arg[t].c IN
         /\ registry' = RegRegister(c)
         /\ handles' = [handles EXCEPT ![c] = @ + 1]
         /\ last' = Outcome("create", "miss", c, <<arg[t].key, arg[t].prefix>>)
    /\ pc' = [pc EXCEPT ![t] = "idle"]
    /\ arg' = [arg EXCEPT ![t] = Idle]
    /\ UNCHANGED <<poisoned, lockHolder, contents, stat, dom>>
    /\ UNCHANGED released
    /\ UNCHANGED legacyVars

\* A creation that returns the new style without registering it.
CreateRegister_Forgets(t) ==
    /\ pc[t] = "create_register"
    /\ LET c == arg[t].c IN
         /\ registry' = registry
         /\ handles' = [handles EXCEPT ![c] = @ + 1]
         /\ last' = Outcome("create", "miss", c, <<arg[t].key, arg[t].prefix>>)
    /\ lockHolder' = NoThread
    /\ pc' = [pc EXCEPT ![t] = "idle"]
    /\ arg' = [arg EXCEPT ![t] = Idle]
    /\ UNCHANGED <<poisoned, contents, stat, dom>>
    /\ UNCHANGED released
    /\ UNCHANGED legacyVars

\* reg.register(new_style.clone()); new_style
CreateRegister(t) ==
    /\ pc[t] = "create_register"
    /\ LET c == arg[t].c IN
         /\ registry' = RegRegister(c)
         /\ handles' = [handles EXCEPT ![c] = @ + 1]
         /\ last' = Outcome("create", "miss", c, <<arg[t].key, arg[t].prefix>>)
    /\ lockHolder' = NoThread
    /\ pc' = [pc EXCEPT ![t] = "idle"]
    /\ arg' = [arg EXCEPT ![t] = Idle]
    /\ UNCHANGED <<poisoned, contents, stat, dom>>
    /\ UNCHANGED released
    /\ UNCHANGED legacyVars

\* #[derive(Clone)] on Style: one more handle to the same content.
CloneHandle(c) ==
    /\ c \in Ids
    /\ handles[c] >= 1
    /\ handles[c] < MaxHandles
    /\ handles' = [handles EXCEPT ![c] = @ + 1]
    /\ last' = Outcome("clone", "ok", NoStyle, NoText)
    /\ UNCHANGED <<registry, poisoned, lockHolder, contents, stat, dom, pc, arg>>
    /\ UNCHANGED released
    /\ UNCHANGED legacyVars

\* A drop that unmounts whatever the reference count is.
DropHandle_Eager(c) ==
    /\ c \in Ids
    /\ handles[c] >= 1
    /\ handles[c] > 1 \/ Borrowing(c) = {}
    /\ handles' = [handles EXCEPT ![c] = @ - 1]
    /\ stat' = Unmounted(stat, c)
    /\ dom' = HeadAfterDrop(c)
    /\ last' = Outcome("drop", "ok", c, NoText)
    /\ UNCHANGED <<registry, poisoned, lockHolder, contents, pc, arg>>
    /\ released' = IF Strong(c) = 1 THEN released \cup {contents[c].key} ELSE released
    /\ UNCHANGED legacyVars

\* A caller drops a handle that no running method borrows; the last
\* reference drops the content, which takes no lock.
DropHandle(c) ==
    /\ c \in Ids
    /\ handles[c] >= 1
    /\ handles[c] > 1 \/ Borrowing(c) = {}
    /\ handles' = [handles EXCEPT ![c] = @ - 1]
    /\ IF Strong(c) = 1
         THEN /\ stat' = Unmounted(stat, c)
              /\ dom' = HeadAfterDrop(c)
         ELSE UNCHANGED <<stat, dom>>
    /\ last' = Outcome("drop", "ok", c, NoText)
    /\ UNCHANGED <<registry, poisoned, lockHolder, contents, pc, arg>>
    /\ released' = IF Strong(c) = 1 THEN released \cup {contents[c].key} ELSE released
    /\ UNCHANGED legacyVars

\* The last drop when unmount returns Err (document(), query_selector or
\* remove_child fails): Drop does `let _result = self.unmount()`, so the element
\* stays in the head, the error is discarded and the drop completes.
UnmountErr == <<"unmount_err">>

\* An unmount error that is not discarded: the drop fails and keeps the handle.
DropHandleUnmountErr_Propagates(c) ==
    /\ target = "wasm32"
    /\ c \in Ids
    /\ handles[c] >= 1
    /\ Borrowing(c) = {}
    /\ Strong(c) = 1
    /\ stat' = Unmounted(stat, c)
    /\ last' = Outcome("drop", "err", c, UnmountErr)
    /\ UNCHANGED <<registry, poisoned, lockHolder, contents, handles, dom, pc, arg>>
    /\ UNCHANGED released
    /\ UNCHANGED legacyVars

DropHandleUnmountErr(c) ==
    /\ target = "wasm32"
    /\ c \in Ids
    /\ handles[c] >= 1
    /\ Borrowing(c) = {}
    /\ Strong(c) = 1
    /\ handles' = [handles EXCEPT ![c] = @ - 1]
    /\ stat' = Unmounted(stat, c)
    /\ last' = Outcome("drop", "ok", c, UnmountErr)
    /\ released' = released \cup {contents[c].key}
    /\ UNCHANGED <<registry, poisoned, lockHolder, contents, dom, pc, arg>>
    /\ UNCHANGED legacyVars

\* Style::unregister(&self): the call is made on a handle, which stays
\* borrowed, and waits for the registry's guard.
UnregisterCall(t, c) ==
    /\ pc[t] = "idle"
    /\ c \in Ids
    /\ handles[c] >= 1
    /\ pc' = [pc EXCEPT ![t] = "unreg_lock"]
    /\ arg' = [arg EXCEPT ![t] = [key |-> contents[c].key, prefix |-> "", c |-> c]]
    /\ last' = Outcome("unregister", "called", NoStyle, NoText)
    /\ UNCHANGED <<registry, poisoned, lockHolder, contents, handles, stat, dom>>
    /\ UNCHANGED released
    /\ UNCHANGED legacyVars

\* Style::unregister, lines 206-207 on a poisoned mutex: unwrap panics.
UnregisterPoisoned(t) ==
    /\ pc[t] = "unreg_lock"
    /\ LockFree
    /\ poisoned
    /\ last' = Outcome("unregister", "poisoned", arg[t].c, NoText)
    /\ pc' = [pc EXCEPT ![t] = "idle"]
    /\ arg' = [arg EXCEPT ![t] = Idle]
    /\ UNCHANGED <<registry, poisoned, lockHolder, contents, handles, stat, dom>>
    /\ UNCHANGED released
    /\ UNCHANGED legacyVars

\* An unregister that unmounts the content at once.
UnregisterBody_Unmounts(t) ==
    /\ pc[t] = "unreg_lock"
    /\ LockFree
    /\ ~poisoned
    /\ LET key == contents[arg[t].c].key
           old == registry[key]
       IN /\ registry' = RegUnregister(key)
          /\ IF old = NoStyle
               THEN UNCHANGED <<stat, dom, released>>
               ELSE /\ stat' = [Unmounted(stat, old) EXCEPT ![old].evicted = TRUE]
                    /\ dom' = HeadAfterDrop(old)
                    /\ released' = released \cup {key}
    /\ last' = Outcome("unregister", "ok", arg[t].c, NoText)
    /\ pc' = [pc EXCEPT ![t] = "idle"]
    /\ arg' = [arg EXCEPT ![t] = Idle]
    /\ UNCHANGED <<poisoned, lockHolder, contents, handles>>
    /\ UNCHANGED legacyVars

\* Style::unregister, lines 206-209: under the guard,
\* reg.unregister(&*self.key()): the entry under the handle's key goes, and
\* with it the registry's own handle to whatever content was stored there.
UnregisterBody(t) ==
    /\ pc[t] = "unreg_lock"
    /\ LockFree
    /\ ~poisoned
    /\ LET key == contents[arg[t].c].key
           old == registry[key]
       IN /\ registry' = RegUnregister(key)
          /\ IF old = NoStyle
               THEN UNCHANGED <<stat, dom, released>>
               ELSE IF Strong(old) = 1
                      THEN /\ stat' = [Unmounted(stat, old) EXCEPT ![old].evicted = TRUE]
                           /\ dom' = HeadAfterDrop(old)
                           /\ released' = released \cup {key}
                      ELSE /\ stat' = [stat EXCEPT ![old].evicted = TRUE]
                           /\ UNCHANGED <<dom, released>>
    /\ last' = Outcome("unregister", "ok", arg[t].c, NoText)
    /\ pc' = [pc EXCEPT ![t] = "idle"]
    /\ arg' = [arg EXCEPT ![t] = Idle]
    /\ UNCHANGED <<poisoned, lockHolder, contents, handles>>
    /\ UNCHANGED legacyVars

\* reg.unregister dropping the last reference of the entry when unmount
\* returns Err: the element stays, the error is discarded, the call returns.
UnregisterBodyUnmountErr(t) ==
    /\ target = "wasm32"
    /\ pc[t] = "unreg_lock"
    /\ LockFree
    /\ ~poisoned
    /\ LET key == contents[arg[t].c].key
           old == registry[key]
       IN /\ old # NoStyle
          /\ Strong(old) = 1
          /\ registry' = RegUnregister(key)
          /\ stat' = [Unmounted(stat, old) EXCEPT ![old].evicted = TRUE]
          /\ released' = released \cup {key}
    /\ last' = Outcome("unregister", "ok", arg[t].c, UnmountErr)
    /\ pc' = [pc EXCEPT ![t] = "idle"]
    /\ arg' = [arg EXCEPT ![t] = Idle]
    /\ UNCHANGED <<poisoned, lockHolder, contents, handles, dom>>
    /\ UNCHANGED legacyVars

\* The state of the OnceCell while one get_or_init runs its closure.
Running == <<"running">>

\* get_style_str on a full cell: get_or_init returns what the cell holds.
GetStyleStrRead(t, c) ==
    /\ pc[t] = "idle"
    /\ c \in Ids
    /\ handles[c] >= 1
    /\ contents[c].style_str \notin {NoText, Running}
    /\ last' = Outcome("get_style_str", "ok", c, contents[c].style_str)
    /\ UNCHANGED <<registry, poisoned, lockHolder, contents, handles, stat, dom, pc, arg>>
    /\ UNCHANGED released
    /\ UNCHANGED legacyVars

\* A cell whose callers all run the closure when they find no text yet.
GetStyleStrBegin_Racy(t, c) ==
    /\ pc[t] = "idle"
    /\ c \in Ids
    /\ handles[c] >= 1
    /\ contents[c].style_str \in {NoText, Running}
    /\ contents' = [contents EXCEPT ![c].style_str = Running]
    /\ pc' = [pc EXCEPT ![t] = "gss_init"]
    /\ arg' = [arg EXCEPT ![t] = [key |-> 0, prefix |-> "", c |-> c]]
    /\ last' = Outcome("get_style_str", "running", NoStyle, NoText)
    /\ UNCHANGED <<registry, poisoned, lockHolder, handles, stat, dom>>
    /\ UNCHANGED released
    /\ UNCHANGED legacyVars

\* get_style_str on an empty cell: get_or_init lets exactly one caller run the
\* closure; a caller that finds it running waits for the cell to fill.
GetStyleStrBegin(t, c) ==
    /\ pc[t] = "idle"
    /\ c \in Ids
    /\ handles[c] >= 1
    /\ contents[c].style_str = NoText
    /\ contents' = [contents EXCEPT ![c].style_str = Running]
    /\ pc' = [pc EXCEPT ![t] = "gss_init"]
    /\ arg' = [arg EXCEPT ![t] = [key |-> 0, prefix |-> "", c |-> c]]
    /\ last' = Outcome("get_style_str", "running", NoStyle, NoText)
    /\ UNCHANGED <<registry, poisoned, lockHolder, handles, stat, dom>>
    /\ UNCHANGED released
    /\ UNCHANGED legacyVars

\* get_style_str while another caller runs the closure: get_or_init blocks.
GetStyleStrWait(t, c) ==
    /\ pc[t] = "idle"
    /\ c \in Ids
    /\ handles[c] >= 1
    /\ contents[c].style_str = Running
    /\ pc' = [pc EXCEPT ![t] = "gss_wait"]
    /\ arg' = [arg EXCEPT ![t] = [key |-> 0, prefix |-> "", c |-> c]]
    /\ last' = Outcome("get_style_str", "waiting", NoStyle, NoText)
    /\ UNCHANGED <<registry, poisoned, lockHolder, contents, handles, stat, dom>>
    /\ UNCHANGED released
    /\ UNCHANGED legacyVars

\* The blocked caller returns what the closure of the other caller produced.
GetStyleStrWake(t) ==
    /\ pc[t] = "gss_wait"
    /\ contents[arg[t].c].style_str # Running
    /\ last' = Outcome("get_style_str", "ok", arg[t].c, contents[arg[t].c].style_str)
    /\ pc' = [pc EXCEPT ![t] = "idle"]
    /\ arg' = [arg EXCEPT ![t] = Idle]
    /\ UNCHANGED <<registry, poisoned, lockHolder, contents, handles, stat, dom>>
    /\ UNCHANGED released
    /\ UNCHANGED legacyVars

\* || self.ast.to_css(self.get_class_name()), and the cell keeps its result.
GetStyleStrInit(t) ==
    /\ pc[t] = "gss_init"
    /\ LET c == arg[t].c
           text == ToCss(contents[c].ast, ClassName(c))
       IN /\ contents' = [contents EXCEPT ![c].style_str = text]
          /\ stat' = [stat EXCEPT ![c].renders = @ + 1]
          /\ last' = Outcome("get_style_str", "ok", c, text)
    /\ pc' = [pc EXCEPT ![t] = "idle"]
    /\ arg' = [arg EXCEPT ![t] = Idle]
    /\ UNCHANGED <<registry, poisoned, lockHolder, handles, dom>>
    /\ UNCHANGED released
    /\ UNCHANGED legacyVars

\* =========================================================================
\* Part 2: src/style/mod.rs
\* =========================================================================

\* Source texts, as token sequences.
SrcEmpty == <<>>
SrcRed == <<"color", ":", "red", ";">>
SrcTwo == <<"color", ":", "red", ";", "top", ":", "0", ";">>
SrcNoColon == <<"color", "red", ";">>
SrcNoSemicolon == <<"color", ":", "red">>
Sources == {SrcEmpty, SrcRed, SrcTwo, SrcNoColon, SrcNoSemicolon}

RECURSIVE ParseDeclarations(_)
\* Parser::parse: property ":" value ";" repeated; anything else is an error.
ParseDeclarations(toks) ==
    IF toks = <<>> THEN [ok |-> TRUE, ast |-> <<>>]
    ELSE IF Len(toks) >= 4 /\ toks[2] = ":" /\ toks[4] = ";"
              /\ toks[1] \notin {":", ";"} /\ toks[3] \notin {":", ";"}
      THEN LET rest == ParseDeclarations(SubSeq(toks, 5, Len(toks))) IN
             IF rest.ok
               THEN [ok |-> TRUE, ast |-> <<[property |-> toks[1], value |-> toks[3]]>> \o rest.ast]
               ELSE rest
      ELSE [ok |-> FALSE, ast |-> <<>>]

Parse(css) == ParseDeclarations(css)

\* Option<Vec<Scope>>
None == [some |-> FALSE, ast |-> <<>>]
Some(ast) == [some |-> TRUE, ast |-> ast]

\* generate_css: every scope rendered under the class name, in order.
GenerateCss(style) ==
    IF style.ast.some
      THEN [i \in 1..Len(style.ast.ast) |-> ToCss(style.ast.ast[i], style.class_name)]
      ELSE <<>>

\* (*style_registry).styles.insert(class_name, style): one entry per class name.
StylesInsert(map, style) ==
    {s \in map : s.class_name # style.class_name} \cup {style}

\* Style::create under cfg(target_arch = "wasm32"): Parser::parse(css)? returns
\* the error before anything is built; otherwise the style is mounted and
\* stored.
LegacyCreateWasm(class_name, css) ==
    /\ target = "wasm32"
    /\ legacyCalls < MaxLegacyCreates
    /\ legacyCalls' = legacyCalls + 1
    /\ LET parsed == Parse(css) IN
         IF ~parsed.ok
           THEN /\ last' = Outcome("legacy_create", "err", NoStyle, <<css>>)
                /\ UNCHANGED <<styles, head>>
           ELSE \E suffix \in Suffixes :
                  LET new_style == [class_name |-> FormatClassName(class_name, suffix),
                                    ast |-> Some(parsed.ast)]
                  IN /\ head' = Append(head, [cls |-> new_style.class_name,
                                              text |-> GenerateCss(new_style)])
                     /\ styles' = StylesInsert(styles, new_style)
                     /\ last' = Outcome("legacy_create", "ok", NoStyle, <<css, new_style>>)
    /\ UNCHANGED <<target, coreVars>>

\* Style::create under cfg(not(target_arch = "wasm32")): Parser::parse(css).ok()
\* turns a parse error into ast: None; the style is stored and returned.
LegacyCreateNative(class_name, css) ==
    /\ target = "native"
    /\ legacyCalls < MaxLegacyCreates
    /\ legacyCalls' = legacyCalls + 1
    /\ LET parsed == Parse(css) IN
       \E suffix \in Suffixes :
         LET new_style == [class_name |-> FormatClassName(class_name, suffix),
                           ast |-> IF parsed.ok THEN Some(parsed.ast) ELSE None]
         IN /\ styles' = StylesInsert(styles, new_style)
            /\ last' = Outcome("legacy_create", "ok", NoStyle, <<css, new_style>>)
    /\ UNCHANGED <<target, head, coreVars>>

\* =========================================================================
\* Specifications
\* =========================================================================

NoOutcome == Outcome("none", "none", NoStyle, NoText)

CoreInit ==
    /\ registry = [k \in Keys |-> NoStyle]
    /\ poisoned = FALSE
    /\ lockHolder = NoThread
    /\ contents = <<>>
    /\ handles = <<>>
    /\ stat = <<>>
    /\ dom = <<>>
    /\ pc = [t \in Threads |-> "idle"]
    /\ arg = [t \in Threads |-> Idle]
    /\ last = NoOutcome
    /\ released = {}

LegacyStart ==
    /\ styles = {}
    /\ head = <<>>
    /\ legacyCalls = 0

\* The build for target_arch = "wasm32": mount, unmount and the Drop hook are
\* compiled in.
Init ==
    /\ CoreInit
    /\ LegacyStart
    /\ target = "wasm32"

\* The build for any other target: lines 39-73, 80-86 and 117-118 are
\* compiled out.
InitNative ==
    /\ CoreInit
    /\ LegacyStart
    /\ target = "native"

\* The steps both builds can take.
Calls ==
    \/ \E t \in Threads, k \in Keys, p \in Prefixes : CreateCall(t, k, p)
    \/ \E t \in Threads : CreateHit(t)
    \/ \E t \in Threads : CreateMiss(t)
    \/ \E t \in Threads : CreateRegister(t)
    \/ \E c \in Ids : CloneHandle(c)
    \/ \E c \in Ids : DropHandle(c)
    \/ \E t \in Threads, c \in Ids : UnregisterCall(t, c)
    \/ \E t \in Threads : UnregisterBody(t)
    \/ \E t \in Threads, c \in Ids : GetStyleStrRead(t, c)

\* With mount compiled in, creation mounts (which fills the cell before any
\* handle exists) or fails to, and a failure poisons the mutex.
Next ==
    \/ Calls
    \/ \E t \in Threads : CreateMount(t)
    \/ \E t \in Threads : MountFail(t)
    \/ \E t \in Threads : CreatePoisoned(t)
    \/ \E t \in Threads : UnregisterPoisoned(t)
    \/ \E c \in Ids : DropHandleUnmountErr(c)
    \/ \E t \in Threads : UnregisterBodyUnmountErr(t)

Spec == Init /\ [][Next]_vars

\* The steps of thread t inside a call it has started: taking the registry's
\* lock when it is free, and everything it does until it returns or panics.
ThreadStep(t) ==
    \/ CreatePoisoned(t)
    \/ CreateHit(t)
    \/ CreateMiss(t)
    \/ CreateMount(t)
    \/ MountFail(t)
    \/ CreateRegister(t)
    \/ UnregisterPoisoned(t)
    \/ UnregisterBody(t)
    \/ UnregisterBodyUnmountErr(t)

\* Every thread keeps running, and a thread blocked in lock() gets the mutex
\* at one of the times it is free.
\* The operations whose interleavings can block one another: creation under
\* one class prefix, unregister, clone and drop.
NextFair ==
    \/ \E t \in Threads, k \in Keys : CreateCall(t, k, "stylist")
    \/ \E t \in Threads : CreateHit(t)
    \/ \E t \in Threads : CreateMiss(t)
    \/ \E t \in Threads : CreateMount(t)
    \/ \E t \in Threads : MountFail(t)
    \/ \E t \in Threads : CreateRegister(t)
    \/ \E t \in Threads : CreatePoisoned(t)
    \/ \E c \in Ids : CloneHandle(c)
    \/ \E c \in Ids : DropHandle(c)
    \/ \E c \in Ids : DropHandleUnmountErr(c)
    \/ \E t \in Threads, c \in Ids : UnregisterCall(t, c)
    \/ \E t \in Threads : UnregisterBody(t)
    \/ \E t \in Threads : UnregisterBodyUnmountErr(t)
    \/ \E t \in Threads : UnregisterPoisoned(t)

SpecFair == Init /\ [][NextFair]_vars /\ \A t \in Threads : SF_vars(ThreadStep(t))

\* Without mount nothing panics under the guard, and the cell is filled by
\* the first get_style_str.
NextNative ==
    \/ Calls
    \/ \E t \in Threads, c \in Ids : GetStyleStrBegin(t, c)
    \/ \E t \in Threads : GetStyleStrInit(t)
    \/ \E t \in Threads, c \in Ids : GetStyleStrWait(t, c)
    \/ \E t \in Threads : GetStyleStrWake(t)

SpecNative == InitNative /\ [][NextNative]_vars

LegacyInit ==
    /\ CoreInit
    /\ LegacyStart
    /\ target \in {"wasm32", "native"}

LegacyNext ==
    \/ \E p \in Prefixes, css \in Sources : LegacyCreateWasm(p, css)
    \/ \E p \in Prefixes, css \in Sources : LegacyCreateNative(p, css)

SpecLegacy == LegacyInit /\ [][LegacyNext]_vars

\* =========================================================================
\* Properties
\* =========================================================================

Wasm == target = "wasm32"

\* The contents ever built for key k.
ContentsOf(k) == {c \in Ids : contents[c].key = k}

\* A step of a create_from_scopes call for key k: the step that looks the
\* registry up, or a later step of a miss.
CreateStep(k) == last'.op = "create" /\ last'.out # "called" /\ last'.val[1] = k

\* C1. Cache hit: a create_from_scopes call that finds an entry for its key
\* in the registry returns a handle to the content of that entry, and the step
\* mounts nothing, allocates no content (so no class name) and leaves the
\* registry map as it was. (On a poisoned mutex the call panics instead of
\* returning, again without touching any of these.)
C1_CacheHit ==
    [][\A k \in Keys :
         (registry[k] # NoStyle /\ CreateStep(k)) =>
           /\ UNCHANGED <<registry, contents, stat, dom>>
           /\ last'.out = IF poisoned THEN "poisoned" ELSE "hit"
           /\ ~poisoned =>
                /\ last'.c = registry[k]
                /\ handles' = [handles EXCEPT ![registry[k]] = @ + 1]]_vars

\* C1 witness: a call with the custom prefix has just returned the content
\* that an earlier call registered, which is still the registry's entry.
C1_Witness ==
    /\ last.op = "create" /\ last.out = "hit"
    /\ registry[last.val[1]] = last.c
    /\ handles[last.c] = 2
    /\ Len(contents) = 1
    /\ stat[last.c].mountCalls = IF Wasm THEN 1 ELSE 0

\* C2. Create race: as long as no content of key k was unregistered, any
\* number of concurrent create_from_scopes calls for k build one content at
\* most, mount is called once at most, and every handle handed out refers to
\* that one content, which is registered and (where the sink exists) was
\* mounted exactly once.
C2_CreateRace ==
    \A k \in Keys :
      (\A c \in ContentsOf(k) : ~stat[c].evicted) =>
        /\ Cardinality(ContentsOf(k)) <= 1
        /\ \A c \in ContentsOf(k) :
             /\ stat[c].mountCalls <= 1
             /\ handles[c] >= 1 =>
                  /\ InRegistry(c)
                  /\ stat[c].mountCalls = IF Wasm THEN 1 ELSE 0
                  /\ stat[c].mounted = Wasm

\* C2 witness: both threads called for the same key while the registry had
\* no entry for it; one built, mounted and registered the content, and the
\* other has just been handed the same content.
C2_Witness ==
    /\ last.op = "create" /\ last.out = "hit"
    /\ Len(contents) = 1
    /\ handles[1] = NumThreads
    /\ stat[1].mountCalls = 1
    /\ ~stat[1].evicted

\* A content whose creation returned a handle to its caller.
Returned(c) == Building(c) = {} /\ (Wasm => stat[c].mounted)

\* C3 as stated. Reference-counted teardown: once every handle obtained for
\* a content has been dropped, unmount has been invoked exactly once for it
\* and its registry entry is gone; while a handle is left, unmount has not
\* been invoked.
C3_AsStated ==
    Wasm =>
      \A c \in Ids :
        Returned(c) =>
          /\ handles[c] >= 1 => stat[c].unmounts = 0
          /\ handles[c] = 0 => stat[c].unmounts = 1 /\ ~InRegistry(c)

\* C3, amended. The registry holds a handle of its own: once the N handles
\* of the callers have all been dropped, unmount has been invoked exactly
\* once if the entry was also unregistered, and not at all while the content
\* is still registered; while a caller's handle is left it has not been
\* invoked; it is never invoked twice.
C3_Teardown ==
    \A c \in Ids :
      Returned(c) =>
        /\ stat[c].unmounts <= 1
        /\ handles[c] >= 1 => stat[c].unmounts = 0
        /\ InRegistry(c) => stat[c].unmounts = 0
        /\ (handles[c] = 0 /\ ~InRegistry(c)) => stat[c].unmounts = IF Wasm THEN 1 ELSE 0

\* C3 witness: the last of two handles of an unregistered content has just
\* been dropped, and the sink saw one unmount.
C3_Witness ==
    /\ Wasm
    /\ last.op = "drop"
    /\ handles[last.c] = 0
    /\ stat[last.c].evicted
    /\ stat[last.c].unmounts = 1
    /\ \E c \in Ids : c # last.c /\ InRegistry(c) /\ handles[c] = 0 /\ stat[c].unmounts = 0

\* C4. unregister on a handle removes the registry entry of the handle's key
\* in that very call; the handle's content is not unmounted while a handle to
\* it is alive; once unregistered, it is unmounted exactly once, by the step
\* that drops its last handle.
C4_Unregister ==
    [][/\ (last'.op = "unregister" /\ last'.out = "ok") =>
            /\ registry'[contents[last'.c].key] = NoStyle
            /\ stat'[last'.c].evicted
            /\ stat'[last'.c].unmounts = 0
       /\ \A c \in Ids :
            /\ handles'[c] >= 1 => stat'[c].unmounts = 0
            /\ (stat[c].evicted /\ handles[c] >= 1) =>
                 /\ ~InRegistry(c)
                 /\ stat'[c].unmounts =
                      IF Wasm /\ handles'[c] = 0 THEN 1 ELSE 0
                 /\ handles'[c] = 0 => last'.op = "drop" /\ last'.c = c]_vars

\* C4 witness: unregister has just returned on one of two live handles; the
\* entry is gone and the content is still mounted.
C4_Witness ==
    /\ Wasm
    /\ last.op = "unregister" /\ last.out = "ok"
    /\ handles[last.c] = 2
    /\ registry[contents[last.c].key] = NoStyle
    /\ stat[last.c].mounted /\ stat[last.c].unmounts = 0

\* Mounted and not yet unmounted.
Live(c) == stat[c].mounted /\ stat[c].unmounts = 0

\* C5 as stated. At most one live artifact per structurally distinct Scopes.
C5_AsStated ==
    \A k \in Keys : Cardinality({c \in ContentsOf(k) : Live(c)}) <= 1

\* C5, amended. At most one live artifact per Scopes value that has not been
\* unregistered; a live artifact that was unregistered is kept only by the
\* handles still held to it, and is no longer the registry's entry.
C5_OneLivePerKey ==
    \A k \in Keys :
      /\ Cardinality({c \in ContentsOf(k) : Live(c) /\ ~stat[c].evicted}) <= 1
      /\ \A c \in ContentsOf(k) :
           (Live(c) /\ stat[c].evicted) => handles[c] >= 1 /\ ~InRegistry(c)

\* C5 witness: two live artifacts of one key, the older one unregistered and
\* still held, the newer one registered.
C5_Witness ==
    \E c, d \in Ids :
      /\ c # d /\ contents[c].key = contents[d].key
      /\ Live(c) /\ Live(d)
      /\ stat[c].evicted /\ handles[c] >= 1
      /\ InRegistry(d)

\* The step of a create_from_scopes call for key k that looks the registry up.
Lookup(k) == CreateStep(k) /\ last'.out \in {"hit", "building", "poisoned"}

\* A content that was handed out and has no reference left.
Gone(c) == Returned(c) /\ Strong(c) = 0

\* C6 as stated. Released is terminal: create_from_scopes never returns a
\* released content, and the first request for its key after the release is
\* a cache miss that builds a new content.
C6_AsStated ==
    [][\A k \in Keys :
         (Lookup(k) /\ ~poisoned) =>
           /\ last'.out = "hit" => ~Gone(last'.c)
           /\ k \in released => last'.out = "building"]_vars

\* C6, amended. create_from_scopes never returns a released content. The
\* first request for its key after the release builds a new content (which
\* is then mounted and registered) if the registry has no entry for the key;
\* if a newer content was registered for the key before the release, the
\* request is a hit on that newer content, which is referenced and not
\* unmounted.
C6_ReleasedIsTerminal ==
    [][/\ \A k \in Keys :
            (Lookup(k) /\ ~poisoned) =>
              /\ last'.out = "hit" =>
                   /\ ~Gone(last'.c)
                   /\ last'.c = registry[k]
                   /\ stat[last'.c].unmounts = 0
              /\ last'.out = "building" =>
                   /\ registry[k] = NoStyle
                   /\ last'.c = Len(contents) + 1
                   /\ Len(contents') = Len(contents) + 1
              /\ (k \in released /\ registry[k] = NoStyle) => last'.out = "building"
       /\ (last'.op = "create" /\ last'.out = "miss") =>
            /\ registry'[last'.val[1]] = last'.c
            /\ handles'[last'.c] = 1
            /\ stat'[last'.c].mounted = Wasm
            /\ stat'[last'.c].unmounts = 0
       /\ \A c \in Ids : Gone(c) => handles'[c] = 0 /\ ~InRegistry(c)']_vars

\* C6 witness: a content was built, registered and handed out for a key of
\* which an earlier content has been released.
C6_Witness ==
    /\ last.op = "create" /\ last.out = "miss"
    /\ \E c \in Ids :
         /\ c # last.c
         /\ contents[c].key = last.val[1]
         /\ Gone(c)
         /\ stat[c].unmounts = IF Wasm THEN 1 ELSE 0

\* ------------------------------------------------------------------- C7
\* The cell of content c holds a rendered text.
Filled(c) == contents[c].style_str \notin {NoText, Running}

\* C7: idempotent render. The renderer runs at most once per content, however
\* the first get_style_str calls interleave; a filled cell keeps its text; and
\* every get_style_str that returns gives the text of the cell, which is the
\* rendering of the content's ast under its class name.
C7_IdempotentRender ==
    [][\A c \in Ids :
         /\ stat'[c].renders <= 1
         /\ stat'[c].renders >= stat[c].renders
         /\ Filled(c) =>
              /\ contents'[c].style_str = contents[c].style_str
              /\ stat'[c].renders = stat[c].renders
         /\ (last'.op = "get_style_str" /\ last'.out = "ok" /\ last'.c = c) =>
              /\ last'.val = contents'[c].style_str
              /\ last'.val = ToCss(contents[c].ast, ClassName(c))
              /\ stat'[c].renders = 1]_vars

\* The closure has just finished for one caller while a second caller of the
\* same content is blocked in get_or_init.
C7_Witness ==
    \E c \in Ids :
      /\ last = Outcome("get_style_str", "ok", c, ToCss(contents[c].ast, ClassName(c)))
      /\ stat[c].renders = 1
      /\ handles[c] = 2
      /\ \E t \in Threads : pc[t] = "gss_wait" /\ arg[t].c = c

\* ------------------------------------------------------------------- C8
\* The step is a mount call on content c that failed.
MountFailed(c) == stat'[c].mountCalls = stat[c].mountCalls + 1 /\ ~stat'[c].mounted

\* C8: a mount that fails during creation ends the call with the failure (the
\* panic of expect, in the caller's thread), hands out no handle, and leaves
\* the registry as it was, without an entry for the key; the content that
\* failed to mount is never registered or handed out later either.
C8_MountFailure ==
    [][\A c \in Ids :
         /\ MountFailed(c) =>
              /\ last' = Outcome("create", "mount_failed", c, last'.val)
              /\ \A t \in Building(c) : pc'[t] = "idle" /\ last'.val[1] = arg[t].key
              /\ handles'[c] = 0
              /\ registry' = registry
              /\ registry'[contents[c].key] = NoStyle
         /\ (stat[c].mountCalls = 1 /\ ~stat[c].mounted) =>
              /\ handles'[c] = 0
              /\ registry'[contents[c].key] # c]_vars

\* A creation has just failed to mount.
C8_Witness ==
    /\ last.op = "create"
    /\ last.out = "mount_failed"
    /\ stat[last.c].mountCalls = 1
    /\ ~stat[last.c].mounted
    /\ registry[last.val[1]] = NoStyle
    /\ handles[last.c] = 0

\* ------------------------------------------------------------------- C9
\* C9, as stated: on a mutex poisoned by an earlier panic under the guard,
\* every create and unregister call that reaches the lock goes on with the
\* map (a hit, a build, or the removal) instead of failing with the poison.
C9_AsStated ==
    [][\A t \in Threads :
         (poisoned /\ pc[t] \in {"create_lock", "unreg_lock"} /\ pc'[t] # pc[t]) =>
            /\ last'.out \in {"hit", "building", "ok"}
            /\ last'.out # "poisoned"]_vars

\* ------------------------------------------------------------------ C10
\* C10, as stated: Style::create on a source text that does not parse returns
\* an error and leaves the registry as it was.
C10_AsStated ==
    [][(legacyCalls' = legacyCalls + 1 /\ ~Parse(last'.val[1]).ok) =>
          /\ last'.op = "legacy_create"
          /\ last'.out = "err"
          /\ styles' = styles]_vars

\* ------------------------------------------------------------------ C11
\* C11, as stated: two contents built for structurally distinct Scopes never
\* carry the same class name, whatever get_rand_str returned for them.
C11_AsStated ==
    \A c1 \in Ids, c2 \in Ids :
      contents[c1].key # contents[c2].key => ClassName(c1) # ClassName(c2)

\* ------------------------------------------------------------------ C12
\* C12, as stated: every create_from_scopes(class_prefix, css) that returns a
\* Style returns one whose class name is class_prefix, "-" and a suffix.
C12_AsStated ==
    [][(last'.op = "create" /\ last'.out \in {"hit", "miss"}) =>
          \E suffix \in Suffixes :
            contents'[last'.c].class_name = FormatClassName(last'.val[2], suffix)]_vars

\* ------------------------------------------------------------------ C13
\* The step is a release of content c whose unmount returned Err.
UnmountFailed(c) ==
    /\ last'.val = UnmountErr
    /\ stat'[c].unmounts = stat[c].unmounts + 1

\* C13: when unmount fails at the release of a content, the drop (or the
\* unregister that dropped the registry's reference) still returns normally,
\* nothing panics and the mutex is not poisoned, and the content is released:
\* no handle and no registry entry refer to it any more, and it stays so.
C13_UnmountAbsorbed ==
    [][\A c \in Ids :
         /\ UnmountFailed(c) =>
              /\ last'.out = "ok"
              /\ last'.op \in {"drop", "unregister"}
              /\ poisoned' = poisoned
              /\ lockHolder' = lockHolder
              /\ \A t \in Threads : pc'[t] \in {pc[t], "idle"}
              /\ handles'[c] = 0
              /\ registry'[contents[c].key] # c
              /\ dom' = dom
              /\ stat'[c].unmounts = 1
         /\ (Returned(c) /\ stat[c].unmounts = 1) =>
              /\ handles'[c] = 0
              /\ registry'[contents[c].key] # c
              /\ stat'[c].unmounts = 1]_vars

\* A content was released by a drop whose unmount failed: its element is
\* still in the head and nothing refers to the content.
C13_Witness ==
    /\ last.op = "drop"
    /\ last.out = "ok"
    /\ last.val = UnmountErr
    /\ Gone(last.c)
    /\ stat[last.c].unmounts = 1
    /\ ~poisoned
    /\ \E i \in 1..Len(dom) : dom[i].cls = ClassName(last.c)

\* ------------------------------------------------------------------ C14
\* The step returns a freshly built content from create_from_scopes.
FreshReturn(c) == last'.op = "create" /\ last'.out = "miss" /\ last'.c = c

\* C14, as stated: a freshly returned content has an empty cell and a renderer
\* that has not run; the cell is filled only by a get_style_str call on a
\* handle; a filled cell keeps its text.
C14_AsStated ==
    [][\A c \in Ids :
         /\ FreshReturn(c) => contents'[c].style_str = NoText /\ stat'[c].renders = 0
         /\ (~Filled(c) /\ contents'[c].style_str # contents[c].style_str) =>
              last'.op = "get_style_str"
         /\ Filled(c) => contents'[c].style_str = contents[c].style_str]_vars

\* C14: where mount is compiled in, mount itself retrieves the rendered text
\* (set_text_content(get_style_str())), so a freshly returned content has its
\* cell filled and its renderer run once; elsewhere it has an empty cell. The
\* cell is filled only by a retrieval of the text (in mount, or by the
\* closure of get_style_str), with the rendering of the content's ast; a
\* filled cell keeps its text and later get_style_str calls only read it.
C14_LazyRender ==
    [][\A c \in Ids :
         /\ FreshReturn(c) =>
              IF Wasm
                THEN /\ contents'[c].style_str = ToCss(contents[c].ast, ClassName(c))
                     /\ stat'[c].renders = 1
                ELSE /\ contents'[c].style_str = NoText
                     /\ stat'[c].renders = 0
         /\ (~Filled(c) /\ contents'[c].style_str \notin {contents[c].style_str, Running}) =>
              /\ contents'[c].style_str = ToCss(contents[c].ast, ClassName(c))
              /\ stat'[c].renders = stat[c].renders + 1
              /\ \/ last'.op = "create" /\ last'.out \in {"mounted", "mount_failed"}
                 \/ last'.op = "get_style_str" /\ last'.out = "ok"
         /\ Filled(c) =>
              /\ contents'[c].style_str = contents[c].style_str
              /\ stat'[c].renders = stat[c].renders
         /\ (Filled(c) /\ last'.op = "get_style_str" /\ last'.c = c) =>
              /\ last'.val = contents[c].style_str
              /\ UNCHANGED <<contents, stat>>]_vars

\* A get_style_str on a content that mount had already rendered.
C14_Witness ==
    /\ last.op = "get_style_str"
    /\ last.out = "ok"
    /\ Wasm
    /\ stat[last.c].mountCalls = 1
    /\ stat[last.c].renders = 1
    /\ last.val = ToCss(contents[last.c].ast, ClassName(last.c))

\* ------------------------------------------------------------------ C15
\* Thread t is about to allocate a content beyond MaxContents, where the
\* model ends.
NoRoom(t) ==
    /\ pc[t] = "create_lock"
    /\ registry[arg[t].key] = NoStyle
    /\ Len(contents) = MaxContents

C16_AsStated ==
    [][(legacyCalls' = legacyCalls + 1 /\ last'.out = "ok") =>
          /\ styles \subseteq styles'
          /\ last'.val[2] \in styles'
          /\ Cardinality(styles') = Cardinality(styles) + 1]_vars

\* ------------------------------------------------------------------ C17
\* The <style> element that mount appends for content c.
ElementOf(c) == [cls |-> ClassName(c), text |-> ToCss(contents[c].ast, ClassName(c))]

\* The document head holds the element of content c.
InHead(c) == \E i \in 1..Len(dom) : dom[i] = ElementOf(c)

\* C17, as stated: every content the registry holds was mounted, was not
\* unmounted since, and has its element in the document head.
C17_AsStated ==
    \A k \in Keys :
      registry[k] # NoStyle =>
        /\ stat[registry[k]].mounted
        /\ stat[registry[k]].unmounts = 0
        /\ InHead(registry[k])

\* ------------------------------------------------------------------ C18
\* C18, as stated: unregister on a handle removes a registry entry only if
\* the entry refers to the content of that handle; every other entry, the one
\* of a newer content under an equal key included, stays.
C18_AsStated ==
    [][(last'.op = "unregister" /\ last'.out = "ok") =>
          \A k \in Keys : registry[k] # last'.c => registry'[k] = registry[k]]_vars

\* ------------------------------------------------------------------ C19
\* C19, as stated: unmount is called for a content at most once, and only
\* for a content whose mount had succeeded; never for one whose mount failed.
C19_AsStated ==
    \A c \in Ids :
      /\ stat[c].unmounts <= 1
      /\ stat[c].unmounts >= 1 => stat[c].mounted

=============================================================================
